---- MODULE Spec2Model ----
(***************************************************************************)
(* conceptnet5/uri.py: the URI scheme of ConceptNet.  Every function of    *)
(* the module is pure; the state machine below is a caller that invokes    *)
(* one function with some arguments, observes what it returns or raises,   *)
(* and discards the result.                                                *)
(*                                                                         *)
(* A Python string is a sequence of characters, each character a           *)
(* one-token TLA+ string: '/c/en' is <<"/", "c", "/", "e", "n">>.          *)
(* Characters outside ASCII are named by code point where useful:          *)
(* "U+0308" is COMBINING DIAERESIS, "U+00FC" and "U+00DC" are the small    *)
(* and the capital letter U WITH DIAERESIS.                                *)
(***************************************************************************)
EXTENDS Integers, Sequences, FiniteSets, TLC

VARIABLES call, args, ret

vars == <<call, args, ret>>

(***************************************************************************)
(* Python values and the outcome of a call.                                *)
(***************************************************************************)
PyStr(s) == [type |-> "str", v |-> s]

PyBytes(s) == [type |-> "bytes", v |-> s]

PyList(l) == [type |-> "list", v |-> l]

PyTuple(l) == [type |-> "tuple", v |-> l]

PyNone == [type |-> "NoneType", v |-> <<>>]

Return(value) == [outcome |-> "return", value |-> value, exc |-> "", msg |-> ""]

Raise(exc, msg) == [outcome |-> "raise", value |-> PyNone, exc |-> exc, msg |-> msg]

Pending == [outcome |-> "pending", value |-> PyNone, exc |-> "", msg |-> ""]

IsStr(x) == x.type = "str"

(***************************************************************************)
(* The str methods the module uses.                                        *)
(***************************************************************************)
RECURSIVE lstrip(_, _)
lstrip(s, chars) ==
    IF s = <<>> \/ s[1] \notin chars THEN s ELSE lstrip(Tail(s), chars)

RECURSIVE rstrip(_, _)
rstrip(s, chars) ==
    IF s = <<>> \/ s[Len(s)] \notin chars THEN s
    ELSE rstrip(SubSeq(s, 1, Len(s) - 1), chars)

strip(s, chars) == rstrip(lstrip(s, chars), chars)

\* s.split(sep) for a one-character sep: ''.split('/') is [''].
RECURSIVE split(_, _)
split(s, sep) ==
    IF \A i \in 1..Len(s) : s[i] # sep THEN <<s>>
    ELSE LET i == CHOOSE k \in 1..Len(s) :
                      s[k] = sep /\ \A j \in 1..(k - 1) : s[j] # sep
         IN  <<SubSeq(s, 1, i - 1)>> \o split(SubSeq(s, i + 1, Len(s)), sep)

\* sep.join(pieces)
RECURSIVE join(_, _)
join(sep, pieces) ==
    IF pieces = <<>> THEN <<>>
    ELSE IF Len(pieces) = 1 THEN pieces[1]
    ELSE pieces[1] \o sep \o join(sep, Tail(pieces))

\* s.replace(old, new) for one-character old and new
replace(s, old, new) == [i \in 1..Len(s) |-> IF s[i] = old THEN new ELSE s[i]]

\* The characters str.strip() with no argument removes.
Whitespace == {" ", "\n"}

\* str.lower(), on the cased characters of the model
lower_char(c) ==
    CASE c = "U" -> "u"
      [] c = "U+00DC" -> "U+00FC"
      [] OTHER -> c

lower(s) == [i \in 1..Len(s) |-> lower_char(s[i])]

(***************************************************************************)
(* ftfy.fix_text, the imported text repair.  Of what it does the model     *)
(* keeps the standardisation of the Unicode representation that the        *)
(* doctest of normalize_text shows: a base letter followed by a combining  *)
(* diaeresis becomes the precomposed letter (NFC).                         *)
(***************************************************************************)
RECURSIVE fix_text(_)
fix_text(s) ==
    IF s = <<>> THEN <<>>
    ELSE IF Len(s) >= 2 /\ s[2] = "U+0308" /\ s[1] \in {"u", "U"}
         THEN <<IF s[1] = "u" THEN "U+00FC" ELSE "U+00DC">>
                  \o fix_text(SubSeq(s, 3, Len(s)))
         ELSE <<s[1]>> \o fix_text(Tail(s))

\* normalize_text with the strip() call left out
normalize_text_no_strip(text) ==
    IF ~IsStr(text)
    THEN Raise("ValueError", "All texts must be Unicode, not bytes.")
    ELSE Return(PyStr(replace(lower(fix_text(text.v)), " ", "_")))

normalize_text(text) ==
    IF ~IsStr(text)
    THEN Raise("ValueError", "All texts must be Unicode, not bytes.")
    ELSE Return(PyStr(replace(lower(strip(fix_text(text.v), Whitespace)), " ", "_")))

\* join_uri stripping only the leading slashes of each piece
join_uri_lstrip(pieces) ==
    <<"/">> \o join(<<"/">>, [i \in 1..Len(pieces) |-> lstrip(pieces[i], {"/"})])

join_uri(pieces) ==
    <<"/">> \o join(<<"/">>, [i \in 1..Len(pieces) |-> strip(pieces[i], {"/"})])

\* '/c'
C_PREFIX == <<"/", "c">>

\* concept_uri joining the disambiguation as given, not normalized
concept_uri_raw_disambiguation(lang, text, pos, disambiguation) ==
    LET n_text == normalize_text(text) IN
    IF n_text.outcome = "raise" THEN n_text
    ELSE IF pos = PyNone
    THEN IF disambiguation # PyNone
         THEN Raise("ValueError", "Disambiguated concepts must have a part of speech")
         ELSE Return(PyStr(join_uri(<<C_PREFIX, lang.v, n_text.value.v>>)))
    ELSE IF disambiguation = PyNone
         THEN Return(PyStr(join_uri(<<C_PREFIX, lang.v, n_text.value.v, pos.v>>)))
         ELSE Return(PyStr(join_uri(<<C_PREFIX, lang.v, n_text.value.v,
                                      pos.v, disambiguation.v>>)))

concept_uri(lang, text, pos, disambiguation) ==
    LET n_text == normalize_text(text) IN
    IF n_text.outcome = "raise" THEN n_text
    ELSE IF pos = PyNone
    THEN IF disambiguation # PyNone
         THEN Raise("ValueError", "Disambiguated concepts must have a part of speech")
         ELSE Return(PyStr(join_uri(<<C_PREFIX, lang.v, n_text.value.v>>)))
    ELSE IF disambiguation = PyNone
         THEN Return(PyStr(join_uri(<<C_PREFIX, lang.v, n_text.value.v, pos.v>>)))
         ELSE LET n_disambig == normalize_text(disambiguation) IN
              IF n_disambig.outcome = "raise" THEN n_disambig
              ELSE Return(PyStr(join_uri(<<C_PREFIX, lang.v, n_text.value.v,
                                           pos.v, n_disambig.value.v>>)))

(***************************************************************************)
(* Compound URIs.                                                          *)
(***************************************************************************)
\* The loop of compound_uri over args[i..], with the items built so far.
RECURSIVE compound_items(_, _, _, _)
compound_items(args_, i, first_item, items) ==
    IF i > Len(args_) THEN items
    ELSE IF first_item
         THEN compound_items(args_, i + 1, FALSE, Append(items, args_[i]))
         ELSE compound_items(args_, i + 1, FALSE,
                             Append(Append(items, <<",">>), args_[i]))

\* compound_uri putting a ',' before every argument, the first included
compound_uri_comma_first(op, args_) ==
    join_uri(Append(compound_items(args_, 1, FALSE, <<op, <<"[">>>>), <<"]">>))

compound_uri(op, args_) ==
    join_uri(Append(compound_items(args_, 1, TRUE, <<op, <<"[">>>>), <<"]">>))

\* '/' + ('/'.join(current)).strip('/')
chunk(current) == <<"/">> \o strip(join(<<"/">>, current), {"/"})

\* The scan of parse_compound_uri over region[i..]: the chunks and the
\* current buffer when the loop ends.
RECURSIVE scan(_, _, _, _, _)
scan(region, i, chunks, current, depth) ==
    IF i > Len(region) THEN [chunks |-> chunks, current |-> current]
    ELSE IF region[i] = <<",">> /\ depth = 0
         THEN scan(region, i + 1, Append(chunks, chunk(current)), <<>>, depth)
         ELSE scan(region, i + 1, chunks, Append(current, region[i]),
                   IF region[i] = <<"[">> THEN depth + 1
                   ELSE IF region[i] = <<"]">> THEN depth - 1
                   ELSE depth)

\* The scan splitting at every ',', whatever the depth.
RECURSIVE scan_flat(_, _, _, _, _)
scan_flat(region, i, chunks, current, depth) ==
    IF i > Len(region) THEN [chunks |-> chunks, current |-> current]
    ELSE IF region[i] = <<",">>
         THEN scan_flat(region, i + 1, Append(chunks, chunk(current)), <<>>, depth)
         ELSE scan_flat(region, i + 1, chunks, Append(current, region[i]), depth)

\* parse_chunks without the depth counter
parse_chunks_flat(region) ==
    LET end == scan_flat(region, 1, <<>>, <<>>, 0) IN
    IF end.current # <<>> THEN Append(end.chunks, chunk(end.current))
    ELSE end.chunks

\* parse_chunks flushing the buffer after the scan even when it is empty
parse_chunks_always_flush(region) ==
    LET end == scan(region, 1, <<>>, <<>>, 0) IN
    Append(end.chunks, chunk(end.current))

\* The chunks of the pieces between the first '[' and the final ']'.
parse_chunks(region) ==
    LET end == scan(region, 1, <<>>, <<>>, 0) IN
    IF end.current # <<>> THEN Append(end.chunks, chunk(end.current))
    ELSE end.chunks

\* pieces.index('['), counted from 1
index_of_open(pieces) ==
    CHOOSE k \in 1..Len(pieces) :
        pieces[k] = <<"[">> /\ \A j \in 1..(k - 1) : pieces[j] # <<"[">>

parse_result(pieces) ==
    LET list_start == index_of_open(pieces)
        op == join_uri(SubSeq(pieces, 1, list_start - 1))
        chunks == parse_chunks(SubSeq(pieces, list_start + 1, Len(pieces) - 1))
    IN  Return(PyTuple(<<PyStr(op),
                         PyList([k \in 1..Len(chunks) |-> PyStr(chunks[k])])>>))

\* parse_compound_uri looking for the '[' before it looks at the end
parse_compound_uri_open_first(uri) ==
    LET pieces == split(lstrip(uri, {"/"}), "/") IN
    IF \A k \in 1..Len(pieces) : pieces[k] # <<"[">>
    THEN Raise("ValueError", "Compound URIs must contain /[/ at the beginning of the argument list")
    ELSE IF pieces[Len(pieces)] # <<"]">>
    THEN Raise("ValueError", "Compound URIs must end with /]")
    ELSE parse_result(pieces)

parse_compound_uri(uri) ==
    LET pieces == split(lstrip(uri, {"/"}), "/") IN
    IF pieces[Len(pieces)] # <<"]">>
    THEN Raise("ValueError", "Compound URIs must end with /]")
    ELSE IF \A k \in 1..Len(pieces) : pieces[k] # <<"[">>
    THEN Raise("ValueError", "Compound URIs must contain /[/ at the beginning of the argument list")
    ELSE parse_result(pieces)

(***************************************************************************)
(* The builders on top of compound_uri.  They take any Python values:      *)
(* compound_uri hands its items to join_uri, which calls strip('/') on     *)
(* each, a method a list does not have.                                    *)
(***************************************************************************)
compound_uri_of(op, sources) ==
    IF \A k \in 1..Len(sources) : IsStr(sources[k])
    THEN Return(PyStr(compound_uri(op, [k \in 1..Len(sources) |-> sources[k].v])))
    ELSE Raise("AttributeError", "'list' object has no attribute 'strip'")

\* '/and', '/or'
AND_OP == <<"/", "a", "n", "d">>

OR_OP == <<"/", "o", "r">>

\* conjunction_uri wrapping a single source too
conjunction_uri_wrap_single(sources) ==
    IF Len(sources) = 0
    THEN Raise("ValueError", "Conjunctions of 0 things are not allowed")
    ELSE compound_uri_of(AND_OP, sources)

conjunction_uri(sources) ==
    IF Len(sources) = 0
    THEN Raise("ValueError", "Conjunctions of 0 things are not allowed")
    ELSE IF Len(sources) = 1
    THEN Return(sources[1])
    ELSE compound_uri_of(AND_OP, sources)

disjunction_uri(sources) ==
    IF Len(sources) = 0
    THEN Raise("ValueError", "Disjunctions of 0 things are not allowed")
    ELSE IF Len(sources) = 1
    THEN Return(sources[1])
    ELSE compound_uri_of(OR_OP, sources)

\* The body of assertion_uri is its docstring alone.
assertion_uri(rel, args_) == Return(PyNone)

\* Each sublist is handed to conjunction_uri as its one source, and the list
\* of the results to disjunction_uri as its one source.
and_or_tree(list_of_lists) ==
    LET ands == [k \in 1..Len(list_of_lists.v) |->
                     conjunction_uri(<<list_of_lists.v[k]>>)] IN
    IF \E k \in 1..Len(ands) : ands[k].outcome = "raise"
    THEN ands[CHOOSE k \in 1..Len(ands) :
                  /\ ands[k].outcome = "raise"
                  /\ \A j \in 1..(k - 1) : ands[j].outcome # "raise"]
    ELSE disjunction_uri(<<PyList([k \in 1..Len(ands) |-> ands[k].value])>>)

(***************************************************************************)
(* The arguments the caller draws from.                                    *)
(***************************************************************************)
StringsUpTo(chars, n) == UNION {[1..k -> chars] : k \in 0..n}

SeqsUpTo(S, n) == UNION {[1..k -> S] : k \in 0..n}

MaxTextLen == 3

TextChars == {"u", "U", " ", "\n", "U+0308"}

Texts == StringsUpTo(TextChars, MaxTextLen)

MaxPieces == 3

PieceSamples ==
    { <<>>, <<"/">>, <<"/", "/">>, <<"a">>, <<"/", "a">>, <<"a", "/">>,
      <<"/", "a", "/">>, <<"a", "/", "b">> }

Langs == { <<"e", "n">>, <<"/", "j", "a", "/">> }

ConceptTexts ==
    { <<>>, <<"U">>, <<" ", "u">>, <<"u", " ", "U">>, <<"u", "/", "U">>, <<"/">> }

PosTags == { PyNone, PyStr(<<"n">>), PyStr(<<>>) }

Disambiguations == {PyNone} \cup {PyStr(t) : t \in ConceptTexts}

\* Operators handed to compound_uri: URIs, and strings that are not URIs.
OpSamples ==
    { <<"/", "a">>, <<"/", "x", "/", "y">>, <<"/", "a", "n", "d">>,
      <<"a">>, <<>>, <<"/">>, <<"/", "a", "/">>, <<"/", "/", "a">> }

\* The most segments, ',' included, of the argument list of a compound URI.
MaxArgSegs == 9

Atom == <<"a">>

\* The plain URIs of n segments: '/a' and '/b', and '/a/a/.../a'.
PlainOfSize(n) ==
    IF n < 1 THEN {}
    ELSE {<<"/">> \o join(<<"/">>, [i \in 1..n |-> Atom])}
             \cup (IF n = 1 THEN {<<"/", "b">>} ELSE {})

\* The URIs of n segments: the plain ones, and the compound URIs that
\* compound_uri builds from a plain operator and a list of such URIs.
RECURSIVE URIsOfSize(_)
RECURSIVE ListsOfSize(_)
URIsOfSize(n) ==
    PlainOfSize(n) \cup
    UNION { {compound_uri(op, list) : op \in PlainOfSize(k),
                                      list \in (IF n - k - 2 = 0 THEN {<<>>}
                                                ELSE ListsOfSize(n - k - 2))} :
            k \in 1..(n - 2) }

\* The non-empty lists of URIs that take m segments with the ',' between them.
ListsOfSize(m) ==
    IF m < 1 THEN {}
    ELSE {<<u>> : u \in URIsOfSize(m)} \cup
         UNION { {<<u>> \o rest : u \in URIsOfSize(k),
                                  rest \in ListsOfSize(m - k - 1)} :
                 k \in 1..(m - 2) }

ArgLists == {<<>>} \cup UNION {ListsOfSize(m) : m \in 1..MaxArgSegs}

\* The segments the strings handed to parse_compound_uri are made of.
SegmentSamples == { <<>>, <<"[">>, <<"]">>, <<",">>, <<"a">> }

MaxParseSegs == 5

SourceSamples == { <<"/", "s", "/", "a">>, <<"/", "r", "/", "b">> }

RelSamples == { <<"/", "r", "/", "C">> }

\* The most sources of a conjunction or disjunction, and arguments of an
\* assertion.
MaxSources == 2

\* The most sublists of an and-or tree.
MaxGroups == 2

SourceLists == SeqsUpTo({PyStr(u) : u \in SourceSamples}, MaxSources)

(***************************************************************************)
(* The caller.                                                             *)
(***************************************************************************)
Init ==
    /\ call = "idle"
    /\ args = <<>>
    /\ ret = Pending

NormalizeText ==
    /\ call = "idle"
    /\ \E text \in {PyStr(t) : t \in Texts} \cup {PyBytes(<<"u">>), PyBytes(<<>>)} :
        /\ call' = "normalize_text"
        /\ args' = [text |-> text]
        /\ ret' = normalize_text(text)

JoinUri ==
    /\ call = "idle"
    /\ \E pieces \in SeqsUpTo(PieceSamples, MaxPieces) :
        /\ call' = "join_uri"
        /\ args' = [pieces |-> pieces]
        /\ ret' = Return(PyStr(join_uri(pieces)))

ConceptUri ==
    /\ call = "idle"
    /\ \E lang \in Langs, text \in ConceptTexts, pos \in PosTags,
          disambiguation \in Disambiguations :
        /\ call' = "concept_uri"
        /\ args' = [lang |-> PyStr(lang), text |-> PyStr(text), pos |-> pos,
                    disambiguation |-> disambiguation]
        /\ ret' = concept_uri(PyStr(lang), PyStr(text), pos, disambiguation)

CompoundUri ==
    /\ call = "idle"
    /\ \E op \in OpSamples, list \in ArgLists :
        /\ call' = "compound_uri"
        /\ args' = [op |-> op, args |-> list]
        /\ ret' = Return(PyStr(compound_uri(op, list)))

ParseCompoundUri ==
    /\ call = "idle"
    /\ \E segments \in SeqsUpTo(SegmentSamples, MaxParseSegs) :
        /\ call' = "parse_compound_uri"
        /\ args' = [uri |-> join(<<"/">>, segments)]
        /\ ret' = parse_compound_uri(join(<<"/">>, segments))

ConjunctionUri ==
    /\ call = "idle"
    /\ \E sources \in SourceLists :
        /\ call' = "conjunction_uri"
        /\ args' = [sources |-> sources]
        /\ ret' = conjunction_uri(sources)

DisjunctionUri ==
    /\ call = "idle"
    /\ \E sources \in SourceLists :
        /\ call' = "disjunction_uri"
        /\ args' = [sources |-> sources]
        /\ ret' = disjunction_uri(sources)

AssertionUri ==
    /\ call = "idle"
    /\ \E rel \in RelSamples, list \in SourceLists :
        /\ call' = "assertion_uri"
        /\ args' = [rel |-> PyStr(rel), args |-> list]
        /\ ret' = assertion_uri(PyStr(rel), list)

AndOrTree ==
    /\ call = "idle"
    /\ \E groups \in SeqsUpTo({PyList(l) : l \in SourceLists}, MaxGroups) :
        /\ call' = "and_or_tree"
        /\ args' = [list_of_lists |-> PyList(groups)]
        /\ ret' = and_or_tree(PyList(groups))

\* The caller drops the result and is free to make the next call.
Discard ==
    /\ call # "idle"
    /\ call' = "idle"
    /\ args' = <<>>
    /\ ret' = Pending

Next ==
    \/ NormalizeText
    \/ JoinUri
    \/ ConceptUri
    \/ CompoundUri
    \/ ParseCompoundUri
    \/ ConjunctionUri
    \/ DisjunctionUri
    \/ AssertionUri
    \/ AndOrTree
    \/ Discard

Spec == Init /\ [][Next]_vars

(***************************************************************************)
(* Properties.                                                             *)
(***************************************************************************)
OnlySlashes(piece) == \A i \in 1..Len(piece) : piece[i] = "/"

\* The piece without the slashes before its first and after its last
\* character that is not a slash.
Trimmed(piece) ==
    IF OnlySlashes(piece) THEN <<>>
    ELSE LET keep == {i \in 1..Len(piece) : piece[i] # "/"}
             lo == CHOOSE i \in keep : \A j \in keep : i <= j
             hi == CHOOSE i \in keep : \A j \in keep : j <= i
         IN  SubSeq(piece, lo, hi)

RECURSIVE SumLen(_)
SumLen(pieces) ==
    IF pieces = <<>> THEN 0 ELSE Len(Trimmed(pieces[1])) + SumLen(Tail(pieces))

\* Where the k-th trimmed piece starts in the joined string.
Offset(pieces, k) == 1 + SumLen(SubSeq(pieces, 1, k - 1)) + (k - 1)

\* The trimmed pieces stand in the result in order, one slash before each.
SingleSlashSeparated(r, pieces) ==
    /\ Len(r) = IF pieces = <<>> THEN 1
                ELSE 1 + SumLen(pieces) + (Len(pieces) - 1)
    /\ \A k \in 1..Len(pieces) :
        /\ r[Offset(pieces, k)] = "/"
        /\ SubSeq(r, Offset(pieces, k) + 1,
                  Offset(pieces, k) + Len(Trimmed(pieces[k]))) = Trimmed(pieces[k])

JoinUriCommon(r, pieces) ==
    /\ r[1] = "/"
    /\ SingleSlashSeparated(r, pieces)
    /\ (r[Len(r)] = "/" => (pieces = <<>> \/ OnlySlashes(pieces[Len(pieces)])))
    /\ (pieces = <<>> => r = <<"/">>)

\* C3 as stated: for every sequence of pieces, also with pieces that are
\* empty or only slashes in any position, the result of join_uri starts with
\* exactly one '/', has the pieces separated by a single '/', ends with '/'
\* only if the final piece strips to the empty string, and is '/' for no
\* pieces.
C3_JoinUriExactlyOneLeadingSlash ==
    call = "join_uri" =>
        LET r == ret.value.v IN
        /\ ret.outcome = "return" /\ IsStr(ret.value)
        /\ JoinUriCommon(r, args.pieces)
        /\ (Len(r) >= 2 => r[2] # "/")

\* C3 amended: the result starts with '/', and with a second '/' exactly
\* when the first piece strips to the empty string and another piece
\* follows it; the rest of C3 as stated.
C3_JoinUriShape ==
    call = "join_uri" =>
        LET r == ret.value.v
            pieces == args.pieces IN
        /\ ret.outcome = "return" /\ IsStr(ret.value)
        /\ JoinUriCommon(r, pieces)
        /\ (Len(r) >= 2 /\ r[2] = "/")
              <=> (Len(pieces) >= 2 /\ OnlySlashes(pieces[1]))

C3_Witness ==
    /\ call = "join_uri"
    /\ args.pieces = << <<"/", "a", "/">>, <<"/", "/">>, <<"a", "/", "b">> >>
    /\ ret.value.v = <<"/", "a", "/", "/", "a", "/", "b">>

\* The number of '/'-separated segments after the leading slash.
SegmentCount(r) == 1 + Cardinality({i \in 2..Len(r) : r[i] = "/"})

ConceptPieces(a) ==
    <<C_PREFIX, a.lang.v, normalize_text(a.text).value.v>>
        \o (IF a.pos = PyNone THEN <<>> ELSE <<a.pos.v>>)
        \o (IF a.disambiguation = PyNone THEN <<>>
            ELSE <<normalize_text(a.disambiguation).value.v>>)

ConceptUriCommon ==
    LET misuse == args.disambiguation # PyNone /\ args.pos = PyNone IN
    /\ (ret.outcome = "raise") <=> misuse
    /\ misuse => /\ ret.exc = "ValueError"
                 /\ ret.msg = "Disambiguated concepts must have a part of speech"
    /\ ~misuse => /\ ret.outcome = "return"
                  /\ ret.value = PyStr(join_uri(ConceptPieces(args)))

OptionalsGiven(a) ==
    (IF a.pos = PyNone THEN 0 ELSE 1) + (IF a.disambiguation = PyNone THEN 0 ELSE 1)

\* C8 as stated: concept_uri fails exactly when a disambiguation is given
\* without a part of speech; otherwise it joins '/c', lang, the normalized
\* text, pos and the normalized disambiguation, so that the result has 3, 4
\* or 5 segments according to the optional arguments given.
C8_ConceptUriSegments ==
    call = "concept_uri" =>
        /\ ConceptUriCommon
        /\ ret.outcome = "return" =>
              SegmentCount(ret.value.v) = 3 + OptionalsGiven(args)

\* C8 amended: as stated, the count of 3, 4 or 5 segments holding when no
\* joined piece keeps a '/' inside it after its outer slashes are stripped.
C8_ConceptUri ==
    call = "concept_uri" =>
        /\ ConceptUriCommon
        /\ (/\ ret.outcome = "return"
            /\ \A k \in 1..Len(ConceptPieces(args)) :
                  \A i \in 1..Len(Trimmed(ConceptPieces(args)[k])) :
                      Trimmed(ConceptPieces(args)[k])[i] # "/")
              => SegmentCount(ret.value.v) = 3 + OptionalsGiven(args)

C8_Witness ==
    /\ call = "concept_uri"
    /\ args.text = PyStr(<<"u", " ", "U">>)
    /\ args.pos = PyStr(<<"n">>)
    /\ args.disambiguation = PyStr(<<" ", "u">>)
    /\ args.lang = PyStr(<<"e", "n">>)
    /\ ret.value = PyStr(<<"/", "c", "/", "e", "n", "/", "u", "_", "u", "/", "n",
                           "/", "u">>)

\* C9: normalize_text is idempotent on Unicode strings, given that the text
\* repair leaves the normalized string unchanged, and its output has no
\* leading or trailing whitespace and no space character.
C9_NormalizeTextIdempotent ==
    (call = "normalize_text" /\ IsStr(args.text)) =>
        /\ ret.outcome = "return" /\ IsStr(ret.value)
        /\ LET n == ret.value.v IN
            /\ fix_text(n) = n => normalize_text(PyStr(n)) = Return(PyStr(n))
            /\ n # <<>> => (n[1] \notin Whitespace /\ n[Len(n)] \notin Whitespace)
            /\ \A i \in 1..Len(n) : n[i] # " "

C9_Witness ==
    /\ call = "normalize_text"
    /\ args.text = PyStr(<<"\n", "U", " ">>)
    /\ ret.value = PyStr(<<"u">>)
    /\ fix_text(ret.value.v) = ret.value.v

\* A URI as the data model has it: one leading '/', no empty segment, no
\* trailing '/'.
WellFormedURI(u) ==
    /\ Len(u) >= 2
    /\ u[1] = "/"
    /\ u[Len(u)] # "/"
    /\ \A i \in 1..(Len(u) - 1) : ~(u[i] = "/" /\ u[i + 1] = "/")

\* The maximal runs of characters other than '/', as pairs of positions.
SegmentSpans(u) ==
    {sp \in (1..Len(u)) \X (1..Len(u)) :
        /\ sp[1] <= sp[2]
        /\ \A i \in sp[1]..sp[2] : u[i] # "/"
        /\ (sp[1] = 1 \/ u[sp[1] - 1] = "/")
        /\ (sp[2] = Len(u) \/ u[sp[2] + 1] = "/")}

HasSegment(u, seg) == \E sp \in SegmentSpans(u) : SubSeq(u, sp[1], sp[2]) = seg

NoReservedSegment(u) ==
    ~HasSegment(u, <<"[">>) /\ ~HasSegment(u, <<"]">>) /\ ~HasSegment(u, <<",">>)

Parsed(op, list) ==
    Return(PyTuple(<<PyStr(op), PyList([k \in 1..Len(list) |-> PyStr(list[k])])>>))

C1_WitnessEmpty ==
    /\ call = "compound_uri"
    /\ args.args = <<>>
    /\ ret.value.v = <<"/", "a", "/", "[", "/", "]">>

\* The pieces parse_compound_uri scans: those between the first '[' segment
\* and the last segment.
Region(uri) ==
    LET pieces == split(lstrip(uri, {"/"}), "/")
        first == CHOOSE k \in 1..Len(pieces) :
                     pieces[k] = <<"[">> /\ \A j \in 1..(k - 1) : pieces[j] # <<"[">>
    IN  SubSeq(pieces, first + 1, Len(pieces) - 1)

\* '[' segments less ']' segments among region[1..i-1]
DepthBefore(region, i) ==
    Cardinality({j \in 1..(i - 1) : region[j] = <<"[">>})
        - Cardinality({j \in 1..(i - 1) : region[j] = <<"]">>})

TopCommas(region) ==
    {i \in 1..Len(region) : region[i] = <<",">> /\ DepthBefore(region, i) = 0}

AllCommas(region) == {i \in 1..Len(region) : region[i] = <<",">>}

\* C2: a compound URI of two or more arguments used as an argument of an
\* outer compound URI is returned intact, as one argument, by
\* parse_compound_uri of the outer URI, which splits its list only at the
\* ',' segments met at depth 0, however deep the arguments nest.
C2_NestedArgumentIntact ==
    call = "compound_uri" =>
        \A i \in 1..Len(args.args) :
            HasSegment(args.args[i], <<",">>) =>
                LET outer == parse_compound_uri(ret.value.v)
                    region == Region(ret.value.v) IN
                /\ outer.outcome = "return"
                /\ Len(outer.value.v[2].v) = Len(args.args)
                /\ outer.value.v[2].v[i] = PyStr(args.args[i])
                /\ Len(outer.value.v[2].v) = Cardinality(TopCommas(region)) + 1
                /\ Cardinality(TopCommas(region)) < Cardinality(AllCommas(region))

\* An argument that holds a compound URI of two arguments, itself the
\* argument of an outer compound URI.
C2_Witness ==
    /\ call = "compound_uri"
    /\ args.op = <<"/", "a", "n", "d">>
    /\ args.args = << <<"/", "a", "/", "[", "/", "a", "/", "[", "/", "a", "/", ",",
                        "/", "a", "/", "]", "/", "]">> >>

C2_WitnessTwo ==
    /\ call = "compound_uri"
    /\ Len(args.args) = 2
    /\ args.args[1] = <<"/", "a">>
    /\ args.args[2] = <<"/", "a", "/", "[", "/", "a", "/", ",", "/", "a", "/", "]">>

\* The characters after the last '/' of the string stripped of its leading
\* slashes.
LastSegment(uri) ==
    LET slashes == {i \in 1..Len(uri) : uri[i] = "/"}
        nonslash == {i \in 1..Len(uri) : uri[i] # "/"} IN
    IF nonslash = {} THEN <<>>
    ELSE LET last == CHOOSE i \in slashes \cup {0} :
                         \A j \in slashes : j <= i
             first == CHOOSE i \in nonslash : \A j \in nonslash : i <= j
         IN  IF last < first THEN SubSeq(uri, first, Len(uri))
             ELSE SubSeq(uri, last + 1, Len(uri))

\* C7: parse_compound_uri fails if and only if the last segment is not ']'
\* or no segment is '['; the end is checked first; in every other case it
\* returns a pair (op, args).
C7_ParseErrors ==
    call = "parse_compound_uri" =>
        LET bad_end == LastSegment(args.uri) # <<"]">>
            no_open == ~HasSegment(args.uri, <<"[">>) IN
        /\ (ret.outcome = "raise") <=> (bad_end \/ no_open)
        /\ bad_end => /\ ret.outcome = "raise"
                      /\ ret.exc = "ValueError"
                      /\ ret.msg = "Compound URIs must end with /]"
        /\ (~bad_end /\ no_open) =>
              /\ ret.outcome = "raise"
              /\ ret.exc = "ValueError"
              /\ ret.msg = "Compound URIs must contain /[/ at the beginning of the argument list"
        /\ (~bad_end /\ ~no_open) =>
              /\ ret.outcome = "return"
              /\ ret.value.type = "tuple"
              /\ Len(ret.value.v) = 2
              /\ IsStr(ret.value.v[1])
              /\ ret.value.v[2].type = "list"

\* A string that fails both checks.
C7_Witness ==
    /\ call = "parse_compound_uri"
    /\ args.uri = <<"/", "a", "/", ",", "/", "a">>
    /\ ret.msg = "Compound URIs must end with /]"

C7_WitnessNoOpen ==
    /\ call = "parse_compound_uri"
    /\ args.uri = <<"/", "a", "/", "]">>
    /\ ret.msg = "Compound URIs must contain /[/ at the beginning of the argument list"

\* The argument region ends with a ',' at depth 0, nothing after it.
TrailingComma(uri) ==
    /\ LastSegment(uri) = <<"]">>
    /\ HasSegment(uri, <<"[">>)
    /\ Region(uri) # <<>>
    /\ Len(Region(uri)) \in TopCommas(Region(uri))

\* C10 as stated: on a trailing ',' parse_compound_uri raises nothing and
\* returns fewer arguments than there are depth-0 ',' segments in the
\* argument region.
C10_TrailingCommaFewerThanCommas ==
    (call = "parse_compound_uri" /\ TrailingComma(args.uri)) =>
        /\ ret.outcome = "return"
        /\ Len(ret.value.v[2].v) < Cardinality(TopCommas(Region(args.uri)))

\* C10 amended: on a trailing ',' parse_compound_uri raises nothing and
\* returns exactly as many arguments as there are depth-0 ',' segments, one
\* fewer than a list with that many separators holds; whenever it returns,
\* the buffer is flushed as a last argument only if a segment follows the
\* last depth-0 ','.
C10_TrailingComma ==
    call = "parse_compound_uri" =>
        /\ TrailingComma(args.uri) =>
              /\ ret.outcome = "return"
              /\ Len(ret.value.v[2].v) = Cardinality(TopCommas(Region(args.uri)))
        /\ ret.outcome = "return" =>
              LET region == Region(args.uri)
                  tail_empty == region = <<>> \/ Len(region) \in TopCommas(region) IN
              Len(ret.value.v[2].v) =
                  Cardinality(TopCommas(region)) + (IF tail_empty THEN 0 ELSE 1)

C10_Witness ==
    /\ call = "parse_compound_uri"
    /\ args.uri = <<"a", "/", "[", "/", "a", "/", ",", "/", "]">>
    /\ ret.value = PyTuple(<<PyStr(<<"/", "a">>), PyList(<<PyStr(<<"/", "a">>)>>)>>)

Values(list) == [k \in 1..Len(list) |-> list[k].v]

\* The conjunction of the elements of each sublist, and the disjunction of
\* those: what C4 describes.
DisjunctionOfConjunctions(list_of_lists) ==
    LET ands == [k \in 1..Len(list_of_lists.v) |->
                     conjunction_uri(list_of_lists.v[k].v)] IN
    IF \E k \in 1..Len(ands) : ands[k].outcome = "raise"
    THEN Raise("ValueError", "Conjunctions of 0 things are not allowed")
    ELSE disjunction_uri([k \in 1..Len(ands) |-> ands[k].value])

\* C4: and_or_tree returns the disjunction of the conjunctions of the inner
\* sequences, a single URI string: a sublist of one source gives that
\* source, of two or more '/and/[/.../]'; one conjunction gives itself, two
\* or more '/or/[/.../]'.
C4_AndOrTree ==
    (/\ call = "and_or_tree"
     /\ args.list_of_lists.v # <<>>
     /\ \A k \in 1..Len(args.list_of_lists.v) : args.list_of_lists.v[k].v # <<>>) =>
        /\ ret.outcome = "return"
        /\ IsStr(ret.value)
        /\ ret = DisjunctionOfConjunctions(args.list_of_lists)

\* '/a'
A_OP == <<"/", "a">>

\* C5: assertion_uri(rel, args...) returns compound_uri('/a', [rel, args...]).
C5_AssertionUri ==
    call = "assertion_uri" =>
        ret = Return(PyStr(compound_uri(A_OP, <<args.rel.v>> \o Values(args.args))))

\* C6: conjunction_uri and disjunction_uri fail on no source and return
\* nothing; return a single source unchanged; and for two or more sources
\* return compound_uri of '/and', respectively '/or', and the sources in
\* their order.
C6_ArityRule ==
    call \in {"conjunction_uri", "disjunction_uri"} =>
        LET sources == args.sources
            op == IF call = "conjunction_uri" THEN AND_OP ELSE OR_OP IN
        /\ Len(sources) = 0 =>
              /\ ret.outcome = "raise"
              /\ ret.value = PyNone
              /\ ret.exc = "ValueError"
              /\ ret.msg = (IF call = "conjunction_uri"
                            THEN "Conjunctions of 0 things are not allowed"
                            ELSE "Disjunctions of 0 things are not allowed")
        /\ Len(sources) = 1 => ret = Return(sources[1])
        /\ Len(sources) >= 2 =>
              /\ ret = Return(PyStr(compound_uri(op, Values(sources))))
              /\ SubSeq(ret.value.v, 1, Len(op) + 2) = op \o <<"/", "[">>
              /\ parse_compound_uri(ret.value.v) = Parsed(op, Values(sources))

C6_Witness ==
    /\ call = "conjunction_uri"
    /\ Len(args.sources) = 2
    /\ args.sources[1] # args.sources[2]
    /\ ret.value = PyStr(<<"/", "a", "n", "d", "/", "[", "/", "s", "/", "a", "/", ",",
                           "/", "r", "/", "b", "/", "]">>)

C6_WitnessSingle ==
    /\ call = "disjunction_uri"
    /\ args.sources = <<PyStr(<<"/", "s", "/", "a">>)>>
    /\ ret = Return(PyStr(<<"/", "s", "/", "a">>))

C6_WitnessNone ==
    /\ call = "conjunction_uri"
    /\ args.sources = <<>>
    /\ ret.outcome = "raise"

====
